---- MODULE Spec2Model ----
(***************************************************************************)
(* Model of the Graph / Vertex abstract data type of src/graph.py and of   *)
(* the grid client timeToRot of src/challenges.py.                         *)
(*                                                                         *)
(* A Python dict is a sequence of <<key, value>> pairs in insertion order  *)
(* (assigning to an existing key keeps the key's position).  Vertex        *)
(* objects live in a heap (a sequence, indexed by allocation order); a     *)
(* reference to a Vertex is its index in the heap, and None is 0.          *)
(***************************************************************************)
EXTENDS Integers, Sequences, FiniteSets, TLC

VARIABLES graph, ret, inserted, frame

vars == <<graph, ret, inserted, frame>>

\* ---------------------------------------------------------------- bounds
NumIds == 3
MaxEdges == 2
MaxVertexObjs == 4
TreeIds == 4
TreeEdges == 3
DagIds == 3
DagEdges == 3
LiveIds == 3
LiveEdges == 2
LiveVertexObjs == 3
MaxDistance == 2
GridRows == 2
GridCols == 3

None == 0

\* ---------------------------------------------------------------- dicts
\* The position of key k in dict d, or 0 (keys are unique).
DictIndex(d, k) ==
    IF \E i \in 1..Len(d) : d[i][1] = k
    THEN CHOOSE i \in 1..Len(d) : d[i][1] = k
    ELSE 0

DictHas(d, k) == DictIndex(d, k) # 0

DictGet(d, k) == d[DictIndex(d, k)][2]

DictSet(d, k, v) ==
    IF DictHas(d, k) THEN [d EXCEPT ![DictIndex(d, k)] = <<k, v>>]
    ELSE Append(d, <<k, v>>)

DictKeys(d) == [i \in 1..Len(d) |-> d[i][1]]

DictValues(d) == [i \in 1..Len(d) |-> d[i][2]]

SeqToSet(s) == {s[i] : i \in 1..Len(s)}

\* Force(v, e) = e.  TLC evaluates operator arguments on first use; comparing
\* v first evaluates it before e and keeps the evaluation stack shallow.
Force(v, e) == IF v = v THEN e ELSE e

\* ---------------------------------------------------------------- Vertex
Vertex(vertex_id) == [id |-> vertex_id, neighbors_dict |-> <<>>]

get_id(G, ref) == G.heap[ref].id

get_neighbors(G, ref) == DictValues(G.heap[ref].neighbors_dict)

add_neighbor(G, ref, vertex_obj) ==
    [G EXCEPT !.heap[ref].neighbors_dict = DictSet(@, get_id(G, vertex_obj), vertex_obj)]

\* ---------------------------------------------------------------- Graph
Graph(is_directed) == [vertex_dict |-> <<>>, is_directed |-> is_directed, heap |-> <<>>]

add_vertex(G, vertex_id) ==
    [G EXCEPT !.heap = Append(@, Vertex(vertex_id)),
              !.vertex_dict = DictSet(@, vertex_id, Len(G.heap) + 1)]

get_vertex(G, vertex_id) ==
    IF ~DictHas(G.vertex_dict, vertex_id) THEN None
    ELSE DictGet(G.vertex_dict, vertex_id)

add_edge(G, vertex_id1, vertex_id2) ==
    LET G1 == IF get_vertex(G, vertex_id1) = None THEN add_vertex(G, vertex_id1) ELSE G
        G2 == IF get_vertex(G1, vertex_id2) = None THEN add_vertex(G1, vertex_id2) ELSE G1
        G3 == add_neighbor(G2, DictGet(G2.vertex_dict, vertex_id1),
                               DictGet(G2.vertex_dict, vertex_id2))
    IN  IF ~G3.is_directed
        THEN add_neighbor(G3, DictGet(G3.vertex_dict, vertex_id2),
                              DictGet(G3.vertex_dict, vertex_id1))
        ELSE G3

get_vertices(G) == DictValues(G.vertex_dict)

contains_id(G, vertex_id) == DictHas(G.vertex_dict, vertex_id)

\* Number of neighbor entries held by all Vertex objects (bounds the model).
RECURSIVE EntryCount(_)
EntryCount(heap) ==
    IF heap = <<>> THEN 0
    ELSE Len(heap[Len(heap)].neighbors_dict) + EntryCount(SubSeq(heap, 1, Len(heap) - 1))

EdgeBudgetOk(G, maxEdges) ==
    EntryCount(G.heap) <= (IF G.is_directed THEN maxEdges ELSE 2 * maxEdges)

\* ---------------------------------------------------------------- bfs_traversal
\* Loop state: seen, queue (of Vertex references), processed (the ids
\* printed so far) and enq, the log of every id appended to the queue.
bfs_traversal_init(G, start_id) ==
    [seen |-> {start_id}, queue |-> <<get_vertex(G, start_id)>>,
     processed |-> <<>>, enq |-> <<start_id>>]

\* A faulty variant of the test of line 146, where the seen set is ignored:
\* C10 does not survive it.
bfs_unseen_always(neighbor_id, seen) == TRUE

bfs_unseen(neighbor_id, seen) == neighbor_id \notin seen

RECURSIVE bfs_traversal_for(_, _, _)
bfs_traversal_for(G, neighbors, st) ==
    IF neighbors = <<>> THEN st
    ELSE LET neighbor == Head(neighbors)
             st1 == IF bfs_unseen(get_id(G, neighbor), st.seen)
                    THEN [st EXCEPT !.seen = @ \cup {get_id(G, neighbor)},
                                    !.queue = Append(@, neighbor),
                                    !.enq = Append(@, get_id(G, neighbor))]
                    ELSE st
         IN  bfs_traversal_for(G, Tail(neighbors), st1)

bfs_traversal_iter(G, st) ==
    LET current_vertex_obj == Head(st.queue)
        st1 == [st EXCEPT !.queue = Tail(@),
                          !.processed = Append(@, get_id(G, current_vertex_obj))]
    IN  bfs_traversal_for(G, get_neighbors(G, current_vertex_obj), st1)

\* ---------------------------------------------------------------- find_shortest_path
\* vertex_id_to_path is a dict id -> path; done is set by the break.
find_shortest_path_init(G, start_id) ==
    [vertex_id_to_path |-> <<<<start_id, <<start_id>>>>>>,
     queue |-> <<get_vertex(G, start_id)>>, done |-> FALSE, enq |-> <<start_id>>]

RECURSIVE find_shortest_path_for(_, _, _, _)
find_shortest_path_for(G, current_vertex_id, neighbors, st) ==
    IF neighbors = <<>> THEN st
    ELSE LET neighbor == Head(neighbors)
             st1 == IF ~DictHas(st.vertex_id_to_path, get_id(G, neighbor))
                    THEN LET current_path == DictGet(st.vertex_id_to_path, current_vertex_id)
                             next_path == Append(current_path, get_id(G, neighbor))
                         IN  [st EXCEPT !.vertex_id_to_path =
                                             DictSet(@, get_id(G, neighbor), next_path),
                                        !.queue = Append(@, neighbor),
                                        !.enq = Append(@, get_id(G, neighbor))]
                    ELSE st
         IN  find_shortest_path_for(G, current_vertex_id, Tail(neighbors), st1)

find_shortest_path_iter(G, target_id, st) ==
    LET current_vertex_obj == Head(st.queue)
        current_vertex_id == get_id(G, current_vertex_obj)
        st1 == [st EXCEPT !.queue = Tail(@)]
    IN  IF current_vertex_id = target_id THEN [st1 EXCEPT !.done = TRUE]
        ELSE find_shortest_path_for(G, current_vertex_id,
                                    get_neighbors(G, current_vertex_obj), st1)

RECURSIVE find_shortest_path_while(_, _, _)
find_shortest_path_while(G, target_id, st) ==
    IF st.queue = <<>> \/ st.done THEN st
    ELSE find_shortest_path_while(G, target_id, find_shortest_path_iter(G, target_id, st))

find_shortest_path_result(target_id, st) ==
    IF ~DictHas(st.vertex_id_to_path, target_id)
    THEN [raised |-> "", is_none |-> TRUE, path |-> <<>>]
    ELSE [raised |-> "", is_none |-> FALSE, path |-> DictGet(st.vertex_id_to_path, target_id)]

find_shortest_path(G, start_id, target_id) ==
    IF ~contains_id(G, start_id) \/ ~contains_id(G, target_id)
    THEN [raised |-> "KeyError", is_none |-> FALSE, path |-> <<>>]
    ELSE find_shortest_path_result(target_id,
             find_shortest_path_while(G, target_id, find_shortest_path_init(G, start_id)))

\* ---------------------------------------------------------------- find_vertices_n_away
find_vertices_n_away_init(start_id) ==
    [visited |-> {start_id}, target_vertices |-> <<>>,
     queue |-> <<<<start_id, 0>>>>, enq |-> <<start_id>>]

RECURSIVE find_vertices_n_away_for(_, _, _, _)
find_vertices_n_away_for(G, v, neighbors, st) ==
    IF neighbors = <<>> THEN st
    ELSE LET vertex == Head(neighbors)
             st1 == IF get_id(G, vertex) \notin st.visited
                    THEN [st EXCEPT !.queue = Append(@, <<get_id(G, vertex), v[2] + 1>>),
                                    !.visited = @ \cup {get_id(G, vertex)},
                                    !.enq = Append(@, get_id(G, vertex))]
                    ELSE st
         IN  find_vertices_n_away_for(G, v, Tail(neighbors), st1)

find_vertices_n_away_iter(G, target_distance, st) ==
    LET v == Head(st.queue)
        st1 == [st EXCEPT !.queue = Tail(@),
                          !.target_vertices =
                              IF v[2] = target_distance THEN Append(@, v[1]) ELSE @]
    IN  find_vertices_n_away_for(G, v, get_neighbors(G, get_vertex(G, v[1])), st1)

\* ---------------------------------------------------------------- is_bipartite
swap_color(next_color) == IF next_color = "r" THEN "b" ELSE "r"

\* visited.get(id, None): the color of id, or "None".
color_of(visited, vertex_id) ==
    IF DictHas(visited, vertex_id) THEN DictGet(visited, vertex_id) ELSE "None"

is_bipartite_init(G) ==
    LET start_id == get_id(G, get_vertices(G)[1])
    IN  [visited |-> <<<<start_id, "r">>>>, queue |-> <<start_id>>,
         next_color |-> "r", returned |-> "None"]

\* A faulty variant of the test of line 266, where a conflict is never
\* found: C4 does not survive it.
same_color_never(vertex_color, current_color) == FALSE

\* the test of line 266; a color that was never assigned is "None"
same_color(vertex_color, current_color) == vertex_color = current_color

RECURSIVE is_bipartite_for(_, _, _, _)
is_bipartite_for(G, current_vertex, neighbors, st) ==
    IF neighbors = <<>> THEN st
    ELSE LET vertex == Head(neighbors)
             vertex_color == color_of(st.visited, get_id(G, vertex))
             current_color == color_of(st.visited, get_id(G, current_vertex))
         IN  IF same_color(vertex_color, current_color)
             THEN [st EXCEPT !.returned = "False"]
             ELSE IF vertex_color = "None"
             THEN is_bipartite_for(G, current_vertex, Tail(neighbors),
                      [st EXCEPT !.visited = DictSet(@, get_id(G, vertex), st.next_color),
                                 !.queue = Append(@, get_id(G, vertex))])
             ELSE is_bipartite_for(G, current_vertex, Tail(neighbors), st)

is_bipartite_iter(G, st) ==
    LET st1 == [st EXCEPT !.next_color = swap_color(@), !.queue = Tail(@)]
        current_vertex == get_vertex(G, Head(st.queue))
    IN  is_bipartite_for(G, current_vertex, get_neighbors(G, current_vertex), st1)

RECURSIVE is_bipartite_while(_, _)
is_bipartite_while(G, st) ==
    IF st.returned # "None" THEN st
    ELSE IF st.queue = <<>> THEN [st EXCEPT !.returned = "True"]
    ELSE is_bipartite_while(G, is_bipartite_iter(G, st))

\* "True", "False", or "IndexError" (get_vertices()[0] of an empty graph).
is_bipartite(G) ==
    IF get_vertices(G) = <<>> THEN "IndexError"
    ELSE is_bipartite_while(G, is_bipartite_init(G)).returned

\* ---------------------------------------------------------------- get_connected
\* visited is the function's own set; visit_log is the sequence of ids the
\* visit callback was called with.
get_connected_init(start_id) ==
    [visited |-> {start_id}, queue |-> <<start_id>>, visit_log |-> <<>>,
     enq |-> <<start_id>>]

RECURSIVE get_connected_for(_, _, _)
get_connected_for(G, neighbors, st) ==
    IF neighbors = <<>> THEN st
    ELSE LET vertex == Head(neighbors)
             st1 == IF get_id(G, vertex) \notin st.visited
                    THEN [st EXCEPT !.queue = Append(@, get_id(G, vertex)),
                                    !.visited = @ \cup {get_id(G, vertex)},
                                    !.visit_log = Append(@, get_id(G, vertex)),
                                    !.enq = Append(@, get_id(G, vertex))]
                    ELSE st
         IN  get_connected_for(G, Tail(neighbors), st1)

get_connected_iter(G, st) ==
    LET v == get_vertex(G, Head(st.queue))
    IN  get_connected_for(G, get_neighbors(G, v), [st EXCEPT !.queue = Tail(@)])

RECURSIVE get_connected_while(_, _)
get_connected_while(G, st) ==
    IF st.queue = <<>> THEN st ELSE get_connected_while(G, get_connected_iter(G, st))

\* list(visited): the ids of the set, modelled as the set itself (a list
\* built from a set holds each id once, in an order the code leaves open).
get_connected(G, start_id) == get_connected_while(G, get_connected_init(start_id))

\* ---------------------------------------------------------------- find_connected_components
RECURSIVE find_connected_components_for(_, _, _, _)
find_connected_components_for(G, vertices, visited, cc) ==
    IF vertices = <<>> THEN cc
    ELSE LET vertex == Head(vertices)
         IN  IF get_id(G, vertex) \notin visited
             THEN LET r == get_connected(G, get_id(G, vertex))
                  IN  find_connected_components_for(G, Tail(vertices),
                          visited \cup {get_id(G, vertex)} \cup SeqToSet(r.visit_log),
                          Append(cc, r.visited))
             ELSE find_connected_components_for(G, Tail(vertices), visited, cc)

find_connected_components(G) ==
    find_connected_components_for(G, get_vertices(G), {}, <<>>)

\* ---------------------------------------------------------------- contains_dfs
\* Loop state of the recursion: the vertex entered, the path set, the log of
\* vertices entered and the value returned ("None" while still recursing).
contains_dfs_init(start_vertex, path) ==
    [vertex |-> start_vertex, path |-> path, enq |-> <<>>, returned |-> "None"]

\* A faulty variant of one call of contains_dfs, where the neighbor is added
\* to the path before it is looked up: C9 does not survive it.
contains_dfs_iter_add_first(G, st) ==
    LET start_vertex == st.vertex
        st1 == [st EXCEPT !.path = @ \cup {get_id(G, start_vertex)},
                          !.enq = Append(@, get_id(G, start_vertex))]
        neighbors == get_neighbors(G, start_vertex)
    IN  IF neighbors = <<>> THEN [st1 EXCEPT !.returned = "False"]
        ELSE LET vertex == neighbors[1]
                 path == st1.path \cup {get_id(G, vertex)}
             IN  IF get_id(G, vertex) \in path THEN [st1 EXCEPT !.returned = "True"]
                 ELSE [st1 EXCEPT !.path = path, !.vertex = vertex]

\* One call of contains_dfs: both branches of the body of the for loop
\* return, so only the first neighbor is ever looked at.
contains_dfs_iter(G, st) ==
    LET start_vertex == st.vertex
        st1 == [st EXCEPT !.path = @ \cup {get_id(G, start_vertex)},
                          !.enq = Append(@, get_id(G, start_vertex))]
        neighbors == get_neighbors(G, start_vertex)
    IN  IF neighbors = <<>> THEN [st1 EXCEPT !.returned = "False"]
        ELSE LET vertex == neighbors[1]
             IN  IF get_id(G, vertex) \in st1.path THEN [st1 EXCEPT !.returned = "True"]
                 ELSE [st1 EXCEPT !.path = @ \cup {get_id(G, vertex)}, !.vertex = vertex]

RECURSIVE contains_dfs_while(_, _)
contains_dfs_while(G, st) ==
    IF st.returned # "None" THEN st ELSE contains_dfs_while(G, contains_dfs_iter(G, st))

contains_dfs(G, start_vertex, path) ==
    contains_dfs_while(G, contains_dfs_init(start_vertex, path)).returned

\* "True", "False", or "IndexError" (get_vertices()[0] of an empty graph).
contains_cycle(G) ==
    IF get_vertices(G) = <<>> THEN "IndexError"
    ELSE contains_dfs(G, get_vertices(G)[1], {})

\* ---------------------------------------------------------------- topological_sort
RECURSIVE topo_dfs(_, _, _)
RECURSIVE topo_dfs_for(_, _, _)
topo_dfs_for(G, neighbors, visited) ==
    IF neighbors = <<>> THEN visited
    ELSE topo_dfs_for(G, Tail(neighbors),
             IF get_id(G, Head(neighbors)) \notin visited
             THEN topo_dfs(G, Head(neighbors), visited)
             ELSE visited)

topo_dfs(G, start_vertex, visited) ==
    topo_dfs_for(G, get_neighbors(G, start_vertex), visited \cup {get_id(G, start_vertex)})

\* The for loop of topological_sort: <<visited, stack>> after it.
RECURSIVE topological_sort_for(_, _, _, _)
topological_sort_for(G, vertices, visited, stack) ==
    IF vertices = <<>> THEN <<visited, stack>>
    ELSE topological_sort_for(G, Tail(vertices),
             topo_dfs(G, Head(vertices), visited),
             Append(stack, get_id(G, Head(vertices))))

\* stack.pop() then stack.appendleft(item)
rotate(stack) == <<stack[Len(stack)]>> \o SubSeq(stack, 1, Len(stack) - 1)

topological_sort(G) ==
    IF contains_cycle(G) = "IndexError" THEN [raised |-> "IndexError", order |-> <<>>]
    ELSE IF contains_cycle(G) = "True" THEN [raised |-> "ValueError", order |-> <<>>]
    ELSE [raised |-> "",
          order |-> rotate(topological_sort_for(G, get_vertices(G), {}, <<>>)[2])]

\* ---------------------------------------------------------------- bfs_calculate_depth
bfs_calculate_depth_init(G, start_id) ==
    [seen |-> {start_id}, max_depth |-> 0,
     queue |-> <<<<get_vertex(G, start_id), 0>>>>, enq |-> <<start_id>>]

RECURSIVE bfs_calculate_depth_for(_, _, _, _)
bfs_calculate_depth_for(G, current_depth, neighbors, st) ==
    IF neighbors = <<>> THEN st
    ELSE LET neighbor == Head(neighbors)
             st1 == IF get_id(G, neighbor) \notin st.seen
                    THEN [st EXCEPT !.seen = @ \cup {get_id(G, neighbor)},
                                    !.queue = Append(@, <<neighbor, current_depth + 1>>),
                                    !.enq = Append(@, get_id(G, neighbor))]
                    ELSE st
         IN  bfs_calculate_depth_for(G, current_depth, Tail(neighbors), st1)

bfs_calculate_depth_iter(G, st) ==
    LET current_vertex_obj == Head(st.queue)
        current_depth == current_vertex_obj[2]
        st1 == [st EXCEPT !.queue = Tail(@),
                          !.max_depth = IF current_depth > @ THEN current_depth ELSE @]
    IN  bfs_calculate_depth_for(G, current_depth,
                                get_neighbors(G, current_vertex_obj[1]), st1)

RECURSIVE bfs_calculate_depth_while(_, _)
bfs_calculate_depth_while(G, st) ==
    IF st.queue = <<>> THEN st
    ELSE bfs_calculate_depth_while(G, bfs_calculate_depth_iter(G, st))

bfs_calculate_depth(G, start_id) ==
    bfs_calculate_depth_while(G, bfs_calculate_depth_init(G, start_id)).max_depth

\* ---------------------------------------------------------------- timeToRot
\* A grid is a sequence of rows; Python's grid[i][j] is grid[i + 1][j + 1].
\* The loop state is <<graph, rotten>>.
timeToRot_cell(grid, i, j, st) ==
    LET pos == Len(grid[i + 1]) * i + j
    IN  IF grid[i + 1][j + 1] > 0
        THEN LET g1 == add_vertex(st[1], pos)
                 rotten == IF grid[i + 1][j + 1] = 2 THEN Append(st[2], pos) ELSE st[2]
                 g2 == IF i > 0 /\ grid[i][j + 1] > 0
                       THEN add_edge(g1, pos, Len(grid[i]) * (i - 1) + j)
                       ELSE g1
                 g3 == IF j > 0 /\ grid[i + 1][j] > 0
                       THEN add_edge(g2, pos, Len(grid[i + 1]) * i + (j - 1))
                       ELSE g2
             IN  <<g3, rotten>>
        ELSE st

RECURSIVE timeToRot_cells(_, _, _, _)
timeToRot_cells(grid, i, j, st) ==
    IF i >= Len(grid) THEN st
    ELSE IF j >= Len(grid[i + 1]) THEN timeToRot_cells(grid, i + 1, 0, st)
    ELSE LET st1 == timeToRot_cell(grid, i, j, st)
         IN  Force(st1, timeToRot_cells(grid, i, j + 1, st1))

RECURSIVE timeToRot_depths(_, _, _)
timeToRot_depths(G, rotten, max_depth) ==
    IF rotten = <<>> THEN max_depth
    ELSE LET depth == bfs_calculate_depth(G, Head(rotten))
         IN  timeToRot_depths(G, Tail(rotten),
                              IF depth > max_depth THEN depth ELSE max_depth)

timeToRot(grid) ==
    LET st == timeToRot_cells(grid, 0, 0, <<Graph(FALSE), <<>>>>)
    IN  Force(st, IF Len(find_connected_components(st[1])) > 1 THEN -1
                  ELSE timeToRot_depths(st[1], st[2], 0))

NoFrame == <<"idle">>

NoRet == [op |-> "none"]

\* ---------------------------------------------------------------- actions
AddVertex(ids, maxObjs) ==
    /\ frame = NoFrame
    /\ \E vertex_id \in ids :
          /\ Len(graph.heap) < maxObjs
          /\ graph' = add_vertex(graph, vertex_id)
          /\ ret' = NoRet
    /\ UNCHANGED <<inserted, frame>>

\* inserted is a history variable: the pairs add_edge was called with.  It is
\* recorded when track holds.
AddEdge(ids, maxEdges, maxObjs, track) ==
    /\ frame = NoFrame
    /\ \E vertex_id1 \in ids, vertex_id2 \in ids :
          LET G1 == add_edge(graph, vertex_id1, vertex_id2)
          IN  /\ Len(G1.heap) <= maxObjs
              /\ EdgeBudgetOk(G1, maxEdges)
              /\ graph' = G1
              /\ inserted' = IF track THEN inserted \cup {<<vertex_id1, vertex_id2>>}
                                    ELSE inserted
              /\ ret' = NoRet
    /\ UNCHANGED frame

\* Each query action models one call of the method and records the call and
\* what it returned (or raised) in ret.
FindShortestPath(ids) ==
    /\ frame = NoFrame
    /\ \E start_id \in ids, target_id \in ids :
          ret' = [op |-> "find_shortest_path", args |-> <<start_id, target_id>>,
                  val |-> find_shortest_path(graph, start_id, target_id)]
    /\ UNCHANGED <<graph, inserted, frame>>

FindConnectedComponents ==
    /\ frame = NoFrame
    /\ ret' = [op |-> "find_connected_components", args |-> <<>>,
               val |-> find_connected_components(graph)]
    /\ UNCHANGED <<graph, inserted, frame>>

IsBipartite ==
    /\ frame = NoFrame
    /\ ret' = [op |-> "is_bipartite", args |-> <<>>, val |-> is_bipartite(graph)]
    /\ UNCHANGED <<graph, inserted, frame>>

ContainsCycle ==
    /\ frame = NoFrame
    /\ ret' = [op |-> "contains_cycle", args |-> <<>>, val |-> contains_cycle(graph)]
    /\ UNCHANGED <<graph, inserted, frame>>

TopologicalSort ==
    /\ frame = NoFrame
    /\ ret' = [op |-> "topological_sort", args |-> <<>>, val |-> topological_sort(graph)]
    /\ UNCHANGED <<graph, inserted, frame>>

Grids ==
    UNION {[1..rows -> [1..cols -> {0, 1, 2}]] : rows \in 1..GridRows, cols \in 1..GridCols}

\* timeToRot(grid): the grid is the pending call's argument, held in frame.
TimeToRot ==
    /\ frame[1] = "timeToRot"
    /\ ret' = [op |-> "timeToRot", args |-> frame[2], val |-> timeToRot(frame[2])]
    /\ frame' = NoFrame
    /\ UNCHANGED <<graph, inserted>>

InitGraph(directed) ==
    /\ graph = Graph(directed)
    /\ ret = NoRet
    /\ inserted = {}
    /\ frame = NoFrame

\* ---------------------------------------------------------------- calls, step by step
\* A call in progress is held in frame, <<method, arguments, loop state>>.
\* One step is one iteration of the method's while loop (one call of
\* contains_dfs for contains_cycle).
Frame(op, args, st) == <<op, args, st>>

Raised(op, args, error) == [op |-> op, args |-> args, val |-> [raised |-> error]]

BeginBfsTraversal(ids) ==
    /\ frame = NoFrame
    /\ \E start_id \in ids :
          IF ~contains_id(graph, start_id)
          THEN /\ ret' = Raised("bfs_traversal", <<start_id>>, "KeyError")
               /\ frame' = NoFrame
          ELSE /\ frame' = Frame("bfs_traversal", <<start_id>>,
                                 bfs_traversal_init(graph, start_id))
               /\ ret' = NoRet
    /\ UNCHANGED <<graph, inserted>>

BeginFindShortestPath(ids) ==
    /\ frame = NoFrame
    /\ \E start_id \in ids, target_id \in ids :
          IF ~contains_id(graph, start_id) \/ ~contains_id(graph, target_id)
          THEN /\ ret' = Raised("find_shortest_path", <<start_id, target_id>>, "KeyError")
               /\ frame' = NoFrame
          ELSE /\ frame' = Frame("find_shortest_path", <<start_id, target_id>>,
                                 find_shortest_path_init(graph, start_id))
               /\ ret' = NoRet
    /\ UNCHANGED <<graph, inserted>>

BeginFindVerticesNAway(ids) ==
    /\ frame = NoFrame
    /\ \E start_id \in ids, target_distance \in 0..MaxDistance :
          frame' = Frame("find_vertices_n_away", <<start_id, target_distance>>,
                         find_vertices_n_away_init(start_id))
    /\ ret' = NoRet
    /\ UNCHANGED <<graph, inserted>>

BeginGetConnected(ids) ==
    /\ frame = NoFrame
    /\ \E start_id \in ids :
          frame' = Frame("get_connected", <<start_id>>, get_connected_init(start_id))
    /\ ret' = NoRet
    /\ UNCHANGED <<graph, inserted>>

BeginBfsCalculateDepth(ids) ==
    /\ frame = NoFrame
    /\ \E start_id \in ids :
          frame' = Frame("bfs_calculate_depth", <<start_id>>,
                         bfs_calculate_depth_init(graph, start_id))
    /\ ret' = NoRet
    /\ UNCHANGED <<graph, inserted>>

BeginContainsCycle ==
    /\ frame = NoFrame
    /\ IF get_vertices(graph) = <<>>
       THEN /\ ret' = Raised("contains_cycle", <<>>, "IndexError")
            /\ frame' = NoFrame
       ELSE /\ frame' = Frame("contains_cycle", <<>>,
                              contains_dfs_init(get_vertices(graph)[1], {}))
            /\ ret' = NoRet
    /\ UNCHANGED <<graph, inserted>>

\* The loop condition is false (or the recursion has returned).
LoopDone(f) ==
    CASE f[1] = "find_shortest_path" -> f[3].queue = <<>> \/ f[3].done
      [] f[1] = "contains_cycle" -> f[3].returned # "None"
      [] OTHER -> f[3].queue = <<>>

\* The next iteration calls a method of None (the start id is not in the graph).
IterRaises(G, f) ==
    CASE f[1] = "find_vertices_n_away" -> get_vertex(G, Head(f[3].queue)[1]) = None
      [] f[1] = "get_connected" -> get_vertex(G, Head(f[3].queue)) = None
      [] f[1] = "bfs_calculate_depth" -> Head(f[3].queue)[1] = None
      [] OTHER -> FALSE

Iter(G, f) ==
    CASE f[1] = "bfs_traversal" -> bfs_traversal_iter(G, f[3])
      [] f[1] = "find_shortest_path" -> find_shortest_path_iter(G, f[2][2], f[3])
      [] f[1] = "find_vertices_n_away" -> find_vertices_n_away_iter(G, f[2][2], f[3])
      [] f[1] = "get_connected" -> get_connected_iter(G, f[3])
      [] f[1] = "bfs_calculate_depth" -> bfs_calculate_depth_iter(G, f[3])
      [] f[1] = "contains_cycle" -> contains_dfs_iter(G, f[3])

Result(f) ==
    CASE f[1] = "bfs_traversal" -> [raised |-> "", processed |-> f[3].processed]
      [] f[1] = "find_shortest_path" -> find_shortest_path_result(f[2][2], f[3])
      [] f[1] = "find_vertices_n_away" -> [raised |-> "", val |-> f[3].target_vertices]
      [] f[1] = "get_connected" -> [raised |-> "", val |-> f[3].visited]
      [] f[1] = "bfs_calculate_depth" -> [raised |-> "", val |-> f[3].max_depth]
      [] f[1] = "contains_cycle" -> [raised |-> "", val |-> f[3].returned]

Step ==
    /\ frame # NoFrame
    /\ ~LoopDone(frame)
    /\ IF IterRaises(graph, frame)
       THEN /\ ret' = Raised(frame[1], frame[2], "AttributeError")
            /\ frame' = NoFrame
       ELSE /\ frame' = [frame EXCEPT ![3] = Iter(graph, frame)]
            /\ ret' = ret
    /\ UNCHANGED <<graph, inserted>>

Return ==
    /\ frame # NoFrame
    /\ LoopDone(frame)
    /\ ret' = [op |-> frame[1], args |-> frame[2], val |-> Result(frame)]
    /\ frame' = NoFrame
    /\ UNCHANGED <<graph, inserted>>

\* ---------------------------------------------------------------- specifications
\* Spec: a directed or an undirected graph, built by add_vertex and add_edge.
Init == \E d \in BOOLEAN : InitGraph(d)

Next ==
    \/ AddVertex(1..NumIds, MaxVertexObjs)
    \/ AddEdge(1..NumIds, MaxEdges, MaxVertexObjs, FALSE)
    \/ FindShortestPath(1..NumIds)
    \/ FindConnectedComponents

Spec == Init /\ [][Next]_vars

\* SpecHistory: an undirected graph built by add_vertex and add_edge, with
\* the history of the add_edge calls.
InitHistory == InitGraph(FALSE)

NextHistory ==
    \/ AddVertex(1..NumIds, MaxVertexObjs)
    \/ AddEdge(1..NumIds, MaxEdges, MaxVertexObjs, TRUE)

SpecHistory == InitHistory /\ [][NextHistory]_vars

\* SpecUndirected: an undirected graph built with add_edge only.
InitUndirected == InitGraph(FALSE)

NextUndirected ==
    \/ AddEdge(1..TreeIds, TreeEdges, TreeIds, FALSE)
    \/ IsBipartite

SpecUndirected == InitUndirected /\ [][NextUndirected]_vars

\* SpecDirected: a directed graph built with add_edge only.
InitDirected == InitGraph(TRUE)

NextDirected ==
    \/ AddEdge(1..DagIds, DagEdges, DagIds, FALSE)
    \/ ContainsCycle
    \/ TopologicalSort

SpecDirected == InitDirected /\ [][NextDirected]_vars

\* SpecRot: timeToRot applied to the grids of up to GridRows x GridCols cells.
InitRot ==
    /\ graph = Graph(FALSE)
    /\ ret = NoRet
    /\ inserted = {}
    /\ frame \in {<<"timeToRot", grid>> : grid \in Grids}

NextRot == TimeToRot

SpecRot == InitRot /\ [][NextRot]_vars

\* LiveSpec: the traversals run step by step on a graph built by add_vertex
\* and add_edge.  The code is single-threaded and synchronous: a call that
\* has begun keeps running, so its steps are weakly fair, and the graph is
\* not mutated while a call is in progress.
NextLive ==
    \/ AddVertex(1..LiveIds, LiveVertexObjs)
    \/ AddEdge(1..LiveIds, LiveEdges, LiveVertexObjs, FALSE)
    \/ BeginBfsTraversal(1..LiveIds)
    \/ BeginFindShortestPath(1..LiveIds)
    \/ BeginFindVerticesNAway(1..LiveIds)
    \/ BeginGetConnected(1..LiveIds)
    \/ BeginBfsCalculateDepth(1..LiveIds)
    \/ BeginContainsCycle
    \/ Step
    \/ Return

LiveSpec == Init /\ [][NextLive]_vars /\ WF_vars(Step) /\ WF_vars(Return)

\* ---------------------------------------------------------------- graph notions of the claims
\* The ids of the graph, and its edges as get_vertex(u).get_neighbors() shows them.
VertexIds(G) == SeqToSet(DictKeys(G.vertex_dict))

NeighborIds(G, u) == {get_id(G, r) : r \in SeqToSet(get_neighbors(G, get_vertex(G, u)))}

Edge(G, u, v) == contains_id(G, u) /\ v \in NeighborIds(G, u)

\* The ids reachable from u by at most k edges.
RECURSIVE ReachWithin(_, _, _)
ReachWithin(G, u, k) ==
    IF k = 0 THEN {u}
    ELSE LET R == ReachWithin(G, u, k - 1)
         IN  R \cup {w \in VertexIds(G) : \E x \in R : Edge(G, x, w)}

Reachable(G, u) == ReachWithin(G, u, Cardinality(VertexIds(G)))

\* The minimum number of edges of a path from u to v (v reachable from u).
Distance(G, u, v) ==
    CHOOSE k \in 0..Cardinality(VertexIds(G)) :
        /\ v \in ReachWithin(G, u, k)
        /\ \A j \in 0..(k - 1) : v \notin ReachWithin(G, u, j)

HasCycle(G) == \E u \in VertexIds(G), w \in VertexIds(G) : Edge(G, u, w) /\ u \in Reachable(G, w)

IsDag(G) == G.is_directed /\ VertexIds(G) # {} /\ ~HasCycle(G)

Position(seq, x) == CHOOSE i \in 1..Len(seq) : seq[i] = x

\* C1: when find_shortest_path(u, v) returns a path, it starts with u, ends
\* with v, every consecutive pair is an edge of the graph, and it has as many
\* edges as the distance from u to v.
C1_ShortestPathValid ==
    (ret.op = "find_shortest_path" /\ ret.val.raised = "" /\ ~ret.val.is_none) =>
        LET path == ret.val.path
        IN  /\ path # <<>>
            /\ path[1] = ret.args[1]
            /\ path[Len(path)] = ret.args[2]
            /\ \A i \in 1..(Len(path) - 1) : Edge(graph, path[i], path[i + 1])
            /\ ret.args[2] \in Reachable(graph, ret.args[1])
            /\ Len(path) - 1 = Distance(graph, ret.args[1], ret.args[2])

\* C2: the components find_connected_components returns partition the vertex
\* set: their union is the set of all ids and no id is in two components.
C2_ComponentsPartition ==
    ret.op = "find_connected_components" =>
        /\ UNION SeqToSet(ret.val) = VertexIds(graph)
        /\ \A i \in 1..Len(ret.val), j \in 1..Len(ret.val) :
               i # j => ret.val[i] \cap ret.val[j] = {}

\* C5: in an undirected graph, for every pair (u, v) add_edge was called
\* with, v is a neighbor of get_vertex(u) and u is a neighbor of get_vertex(v).
C5_BothEntriesExist ==
    ~graph.is_directed =>
        \A e \in inserted :
            /\ get_vertex(graph, e[1]) # None
            /\ get_vertex(graph, e[2]) # None
            /\ e[2] \in NeighborIds(graph, e[1])
            /\ e[1] \in NeighborIds(graph, e[2])

\* C6: on a non-empty directed acyclic graph topological_sort returns a list
\* in which u comes before v for every edge u -> v.
C6_TopologicalOrderValid ==
    (ret.op = "topological_sort" /\ IsDag(graph)) =>
        /\ ret.val.raised = ""
        /\ \A u \in VertexIds(graph), v \in VertexIds(graph) :
               Edge(graph, u, v) =>
                   /\ u \in SeqToSet(ret.val.order)
                   /\ v \in SeqToSet(ret.val.order)
                   /\ Position(ret.val.order, u) < Position(ret.val.order, v)

\* C7: on a directed graph that contains a cycle (a self-loop included)
\* topological_sort raises ValueError.
C7_CycleRaisesValueError ==
    (ret.op = "topological_sort" /\ graph.is_directed /\ HasCycle(graph)) =>
        ret.val.raised = "ValueError"

\* ---------------------------------------------------------------- undirected notions
FirstId(G) == get_id(G, get_vertices(G)[1])

NoSelfLoop(G) == \A u \in VertexIds(G) : ~Edge(G, u, u)

Connected(G) == \A u \in VertexIds(G) : Reachable(G, u) = VertexIds(G)

\* The edges of an undirected graph, each as the set of its two ends.
UndirectedEdges(G) == {{u, v} : u \in VertexIds(G), v \in VertexIds(G)} \cap
                      {{e[1], e[2]} : e \in {x \in VertexIds(G) \X VertexIds(G) :
                                                Edge(G, x[1], x[2])}}

IsTree(G) ==
    /\ VertexIds(G) # {}
    /\ NoSelfLoop(G)
    /\ Connected(G)
    /\ Cardinality(UndirectedEdges(G)) = Cardinality(VertexIds(G)) - 1

IsEvenCycle(G) ==
    /\ VertexIds(G) # {}
    /\ NoSelfLoop(G)
    /\ Connected(G)
    /\ \A u \in VertexIds(G) : Cardinality(NeighborIds(G, u)) = 2
    /\ Cardinality(VertexIds(G)) % 2 = 0

\* A simple cycle of odd length through start: cur is the end of a simple
\* path from start over the vertices of on, of len vertices.
RECURSIVE OddCycleFrom(_, _, _, _, _)
OddCycleFrom(G, start, cur, on, len) ==
    \/ len % 2 = 1 /\ Edge(G, cur, start)
    \/ \E w \in VertexIds(G) \ on :
           Edge(G, cur, w) /\ OddCycleFrom(G, start, w, on \cup {w}, len + 1)

\* The component of the first vertex contains a cycle of odd length.
FirstComponentHasOddCycle(G) ==
    /\ get_vertices(G) # <<>>
    /\ \E u \in Reachable(G, FirstId(G)) : OddCycleFrom(G, u, u, {u}, 1)

\* C3: on an undirected graph that is one even-length cycle, or a tree,
\* is_bipartite returns True.
C3_TreeOrEvenCycleIsBipartite ==
    (ret.op = "is_bipartite" /\ (IsTree(graph) \/ IsEvenCycle(graph))) =>
        ret.val = "True"

\* C4: on an undirected graph built with add_edge whose component of the
\* first vertex contains a cycle of odd length, is_bipartite returns False.
C4_OddCycleIsNotBipartite ==
    (ret.op = "is_bipartite" /\ FirstComponentHasOddCycle(graph)) =>
        ret.val = "False"

\* is_bipartite has been called on a graph that holds a triangle (no self-loop).
C4_Witness ==
    /\ ret.op = "is_bipartite"
    /\ FirstComponentHasOddCycle(graph)
    /\ NoSelfLoop(graph)
    /\ ret.val = "False"

\* ---------------------------------------------------------------- directed notions
\* The simple paths of G that extend path.
RECURSIVE SimplePathsFrom(_, _)
SimplePathsFrom(G, path) ==
    {path} \cup UNION {SimplePathsFrom(G, Append(path, w)) :
                          w \in NeighborIds(G, path[Len(path)]) \ SeqToSet(path)}

Interior(path) == {path[i] : i \in 2..(Len(path) - 1)}

\* Some vertex is reachable from the first vertex by two disjoint paths.
TwoDisjointPaths(G) ==
    /\ get_vertices(G) # <<>>
    /\ \E p \in SimplePathsFrom(G, <<FirstId(G)>>), q \in SimplePathsFrom(G, <<FirstId(G)>>) :
           /\ p # q
           /\ Len(p) >= 2 /\ Len(q) >= 2
           /\ p[Len(p)] = q[Len(q)]
           /\ Interior(p) \cap Interior(q) = {}

\* C9 (as claimed): on a directed acyclic graph built with add_edge in which
\* some vertex is reachable from the first vertex by two disjoint paths,
\* contains_cycle returns True (a false positive).
C9_FalsePositiveOnTwoPaths ==
    (ret.op = "contains_cycle" /\ IsDag(graph) /\ TwoDisjointPaths(graph)) =>
        ret.val = "True"

\* C9 (amended): on a directed acyclic graph built with add_edge only,
\* contains_cycle returns False: it has no false positive there.
C9_NoFalsePositive ==
    (ret.op = "contains_cycle" /\ IsDag(graph)) => ret.val = "False"

\* contains_cycle has been called on an acyclic graph in which a vertex is
\* reachable from the first vertex by two disjoint paths.
C9_Witness ==
    /\ ret.op = "contains_cycle"
    /\ IsDag(graph)
    /\ TwoDisjointPaths(graph)
    /\ ret.val = "False"

\* ---------------------------------------------------------------- the rotting process
Cell(grid, i, j) ==
    IF i \in 1..Len(grid) /\ j \in 1..Len(grid[i]) THEN grid[i][j] ELSE 0

\* One minute: every rotten cell contaminates its 4-directional fresh neighbors.
RotStep(grid) ==
    [i \in 1..Len(grid) |-> [j \in 1..Len(grid[i]) |->
        IF grid[i][j] = 1 /\ 2 \in {Cell(grid, i - 1, j), Cell(grid, i + 1, j),
                                    Cell(grid, i, j - 1), Cell(grid, i, j + 1)}
        THEN 2 ELSE grid[i][j]]]

HasFresh(grid) == \E i \in 1..Len(grid) : \E j \in 1..Len(grid[i]) : grid[i][j] = 1

\* The minutes until no fresh cell is left, or -1 when one never rots.
RECURSIVE RotMinutes(_)
RotMinutes(grid) ==
    IF ~HasFresh(grid) THEN 0
    ELSE IF RotStep(grid) = grid THEN -1
    ELSE LET rest == RotMinutes(RotStep(grid))
         IN  IF rest = -1 THEN -1 ELSE rest + 1

\* C8: timeToRot returns the number of minutes until all oranges rot (0 when
\* there is no fresh cell), and -1 when some fresh cell is never reached.
C8_TimeToRotIsRotMinutes ==
    ret.op = "timeToRot" => ret.val = RotMinutes(ret.args)

\* ---------------------------------------------------------------- termination
NoDuplicates(seq) == \A i \in 1..Len(seq), j \in 1..Len(seq) : i # j => seq[i] # seq[j]

Running == frame # NoFrame

\* C10: every call of bfs_traversal, find_shortest_path, find_vertices_n_away,
\* get_connected, bfs_calculate_depth and contains_cycle terminates, and
\* within one call no id is enqueued (or entered by the recursion) twice.
C10_TerminatesEnqueuingOnce ==
    /\ [](Running => NoDuplicates(frame[3].enq))
    /\ Running ~> ~Running

\* A call on a graph with a cycle has finished its loop after enqueuing
\* (or entering) at least two vertices.
C10_Witness ==
    /\ Running
    /\ LoopDone(frame)
    /\ HasCycle(graph)
    /\ Len(frame[3].enq) >= 2

====
